---- MODULE Spec2Model ----
(***************************************************************************)
(* Model of the exa-sdk client library (src/src/lib.rs, search.rs,         *)
(* find_similar.rs, get_contents.rs): construction of the client, the      *)
(* three endpoint operations, the shared dispatch, and the serde wire      *)
(* format of the request and response structs.                             *)
(*                                                                         *)
(* Strings whose characters the code inspects (API keys, which become a    *)
(* header value, and the url of a find-similar request, which is parsed)   *)
(* are sequences of one-character strings.  Other strings are atoms.       *)
(***************************************************************************)
EXTENDS Integers, Sequences, FiniteSets, TLC

VARIABLES env, builder, built, held, call, peer, ncalls

vars == <<env, builder, built, held, call, peer, ncalls>>

(***************************************************************************)
(* Option<T> and Result<T, E>                                              *)
(***************************************************************************)
None == <<>>

Some(x) == <<x>>

IsSome(o) == Len(o) > 0

IsNone(o) == Len(o) = 0

Unwrap(o) == o[1]

Ok(x) == [ok |-> TRUE, v |-> x]

Err(e) == [ok |-> FALSE, v |-> e]

(***************************************************************************)
(* Bounds of the model                                                     *)
(***************************************************************************)
\* longest generated input string of FindSimilarRequest::new
MaxUrlLen == 3

\* number of endpoint calls the caller makes in one run
MaxCalls == 2

(***************************************************************************)
(* Program constants (lib.rs)                                              *)
(***************************************************************************)
BASE_URL == "https://api.exa.ai"

API_KEY_HEADER == "x-api-key"

EnvVarName == "EXA_API_KEY"

\* the text of the anyhow! error of ExaBuilder::build, word by word
MissingKeyMessage ==
    <<"API", "key", "is", "required.", "Set", "it", "explicitly", "or", "use",
      "the", "EXA_API_KEY", "environment", "variable">>

(***************************************************************************)
(* Input values                                                            *)
(***************************************************************************)
TEST_KEY == <<"t", "e", "s", "t", "_", "k", "e", "y">>

ENV_KEY == <<"e", "n", "v", "_", "k", "e", "y">>

\* a key with a line feed: not a legal header value
BAD_KEY == <<"k", "\n">>

MOCK_URL == "http://127.0.0.1:1234"

ExplicitKeys == {TEST_KEY, BAD_KEY}

BaseUrls == {MOCK_URL}

\* The process environment's entry for EXA_API_KEY: unset, set to a Unicode
\* string, or set to bytes that are not valid Unicode.
EnvUnset == [set |-> FALSE, unicode |-> FALSE, value |-> <<>>]

EnvSet(s) == [set |-> TRUE, unicode |-> TRUE, value |-> s]

EnvNotUnicode == [set |-> TRUE, unicode |-> FALSE, value |-> <<>>]

\* (a variable set to the empty string is set)
EnvStates == {EnvUnset, EnvSet(ENV_KEY), EnvSet(<<>>), EnvNotUnicode}

(***************************************************************************)
(* ExaBuilder (lib.rs 25-36, 87-106)                                       *)
(***************************************************************************)
\* Exa::builder()
NewExaBuilder == [api_key |-> None, base_url |-> None]

\* std::env::var(name).ok(): Some only for a variable that is set to Unicode
EnvVar(e) == IF e.set /\ e.unicode THEN Some(e.value) ELSE None

\* a resolution that prefers the environment to the explicit key
ResolveKeyEnvFirst(b, e) == IF IsSome(EnvVar(e)) THEN EnvVar(e) ELSE b.api_key

\* self.api_key.or_else(|| std::env::var("EXA_API_KEY").ok().map(SecretString::new))
ResolveKey(b, e) == IF IsSome(b.api_key) THEN b.api_key ELSE EnvVar(e)

\* self.base_url.unwrap_or_else(|| BASE_URL.to_string())
ResolveBaseUrl(b) == IF IsSome(b.base_url) THEN Unwrap(b.base_url) ELSE BASE_URL

\* ExaBuilder::build
BuildExa(b, e) ==
    IF IsSome(ResolveKey(b, e))
    THEN Ok([api_key |-> Unwrap(ResolveKey(b, e)), base_url |-> ResolveBaseUrl(b)])
    ELSE Err([anyhow |-> MissingKeyMessage])

NoBuild == [done |-> FALSE, b |-> NewExaBuilder, env |-> EnvUnset, result |-> Err([anyhow |-> <<>>])]

HasClient == built.done /\ built.result.ok

Exa == built.result.v

(***************************************************************************)
(* JSON documents                                                          *)
(* A number is an integer; an f64 is counted in hundredths (0.95 is 95).   *)
(* An object is a function from its keys to JSON values.                   *)
(***************************************************************************)
JNull == [t |-> "null", v |-> <<>>]

JStr(s) == [t |-> "str", v |-> s]

JNum(n) == [t |-> "num", v |-> n]

JBool(b) == [t |-> "bool", v |-> b]

JArr(a) == [t |-> "arr", v |-> a]

JObj(f) == [t |-> "obj", v |-> f]

Keys(j) == DOMAIN j.v

(***************************************************************************)
(* The serde attributes of the structs.  One entry per field, in the       *)
(* order of declaration:                                                   *)
(*   name  the field's name in memory                                      *)
(*   wire  the key on the wire (the rename attribute, else the name)       *)
(*   ty    the type inside Option<..> / Vec<..>                            *)
(*   opt   the field is an Option                                          *)
(*   vec   the type is a Vec                                               *)
(*   skip  the field has skip_serializing_if = "Option::is_none"           *)
(***************************************************************************)
Fld(name, wire, ty, opt, vec, skip) ==
    [name |-> name, wire |-> wire, ty |-> ty, opt |-> opt, vec |-> vec, skip |-> skip]

\* search.rs 115-149
SearchRequestFields ==
    << Fld("query", "query", "str", FALSE, FALSE, FALSE),
       Fld("use_autoprompt", "useAutoprompt", "bool", TRUE, FALSE, TRUE),
       Fld("kind", "type", "SearchKind", TRUE, FALSE, TRUE),
       Fld("include_text", "includeText", "str", TRUE, TRUE, TRUE),
       Fld("num_results", "numResults", "u32", TRUE, FALSE, TRUE),
       Fld("include_domains", "includeDomains", "str", TRUE, TRUE, TRUE),
       Fld("exclude_domains", "excludeDomains", "str", TRUE, TRUE, TRUE),
       Fld("start_crawl_date", "startCrawlDate", "str", TRUE, FALSE, TRUE),
       Fld("end_crawl_date", "endCrawlDate", "str", TRUE, FALSE, TRUE),
       Fld("start_published_date", "startPublishedDate", "str", TRUE, FALSE, TRUE),
       Fld("end_published_date", "endPublishedDate", "str", TRUE, FALSE, TRUE),
       Fld("exclude_text", "excludeText", "str", TRUE, TRUE, TRUE),
       Fld("contents", "contents", "SearchContent", TRUE, FALSE, FALSE) >>

\* search.rs 151-156
SearchContentFields ==
    << Fld("text", "text", "SearchContentText", TRUE, FALSE, FALSE),
       Fld("highlights", "highlights", "SearchHighlights", TRUE, FALSE, FALSE),
       Fld("summary", "summary", "SearchSummary", TRUE, FALSE, FALSE) >>

\* search.rs 158-166
SearchContentTextFields ==
    << Fld("max_characters", "maxCharacters", "u32", TRUE, FALSE, FALSE),
       Fld("include_html_tags", "includeHtmlTags", "bool", TRUE, FALSE, FALSE) >>

\* search.rs 169-179
SearchHighlightsFields ==
    << Fld("num_sentences", "numSentences", "u32", TRUE, FALSE, FALSE),
       Fld("highlights_per_url", "highlightsPerUrl", "u32", TRUE, FALSE, FALSE),
       Fld("query", "query", "str", TRUE, FALSE, FALSE) >>

\* search.rs 182-189
SearchSummaryFields ==
    << Fld("summary", "summary", "str", FALSE, FALSE, FALSE),
       Fld("query", "query", "str", TRUE, FALSE, FALSE) >>

\* search.rs 81-91
SearchResponseFields ==
    << Fld("results", "results", "SearchResult", FALSE, TRUE, FALSE),
       Fld("autoprompt_string", "autopromptString", "str", TRUE, FALSE, FALSE),
       Fld("auto_date", "autoDate", "str", TRUE, FALSE, FALSE) >>

\* search.rs 94-112
SearchResultFields ==
    << Fld("title", "title", "str", FALSE, FALSE, FALSE),
       Fld("url", "url", "str", FALSE, FALSE, FALSE),
       Fld("published_date", "publishedDate", "str", TRUE, FALSE, FALSE),
       Fld("author", "author", "str", TRUE, FALSE, FALSE),
       Fld("score", "score", "f64", FALSE, FALSE, FALSE),
       Fld("id", "id", "str", FALSE, FALSE, FALSE),
       Fld("text", "text", "str", TRUE, FALSE, FALSE),
       Fld("highlights", "highlights", "str", TRUE, TRUE, FALSE),
       Fld("highlight_scores", "highlightScores", "f64", TRUE, TRUE, FALSE) >>

\* find_similar.rs 8-31
FindSimilarRequestFields ==
    << Fld("url", "url", "chars", FALSE, FALSE, FALSE),
       Fld("num_results", "num_results", "u32", TRUE, FALSE, TRUE),
       Fld("include_domains", "include_domains", "str", TRUE, TRUE, TRUE),
       Fld("exclude_domains", "exclude_domains", "str", TRUE, TRUE, TRUE),
       Fld("start_crawl_date", "start_crawl_date", "str", TRUE, FALSE, TRUE),
       Fld("end_crawl_date", "end_crawl_date", "str", TRUE, FALSE, TRUE),
       Fld("start_published_date", "start_published_date", "str", TRUE, FALSE, TRUE),
       Fld("end_published_date", "end_published_date", "str", TRUE, FALSE, TRUE),
       Fld("include_text", "include_text", "str", TRUE, TRUE, TRUE),
       Fld("exclude_text", "exclude_text", "str", TRUE, TRUE, TRUE),
       Fld("contents", "contents", "SearchContent", TRUE, FALSE, TRUE) >>

\* find_similar.rs 33-36
FindSimilarResponseFields ==
    << Fld("results", "results", "SearchResult", FALSE, TRUE, FALSE) >>

\* get_contents.rs 6-15
ContentsRequestFields ==
    << Fld("ids", "ids", "str", FALSE, TRUE, FALSE),
       Fld("text", "text", "ContentsTextRequest", TRUE, FALSE, TRUE),
       Fld("highlights", "highlights", "ContentsHighlightsRequest", TRUE, FALSE, TRUE),
       Fld("summary", "summary", "ContentsSummaryRequest", TRUE, FALSE, TRUE) >>

\* get_contents.rs 17-23
ContentsTextRequestFields ==
    << Fld("max_characters", "max_characters", "u32", TRUE, FALSE, TRUE),
       Fld("include_html_tags", "include_html_tags", "bool", TRUE, FALSE, TRUE) >>

\* get_contents.rs 25-33
ContentsHighlightsRequestFields ==
    << Fld("num_sentences", "num_sentences", "u32", TRUE, FALSE, TRUE),
       Fld("highlights_per_url", "highlights_per_url", "u32", TRUE, FALSE, TRUE),
       Fld("query", "query", "str", TRUE, FALSE, TRUE) >>

\* get_contents.rs 35-38
ContentsSummaryRequestFields ==
    << Fld("query", "query", "str", TRUE, FALSE, FALSE) >>

\* get_contents.rs 40-43
ContentsResponseFields ==
    << Fld("results", "results", "ContentsResult", FALSE, TRUE, FALSE) >>

\* get_contents.rs 45-53
ContentsResultFields ==
    << Fld("id", "id", "str", FALSE, FALSE, FALSE),
       Fld("url", "url", "str", FALSE, FALSE, FALSE),
       Fld("title", "title", "str", FALSE, FALSE, FALSE),
       Fld("text", "text", "str", TRUE, FALSE, FALSE),
       Fld("highlights", "highlights", "str", TRUE, TRUE, FALSE),
       Fld("highlight_scores", "highlight_scores", "f64", TRUE, TRUE, FALSE) >>

\* The error payload {code, message} of a non-success response (error.rs)
HttpErrorPayloadFields ==
    << Fld("code", "code", "str", FALSE, FALSE, FALSE),
       Fld("message", "message", "str", FALSE, FALSE, FALSE) >>

StructTypes ==
    {"SearchRequest", "SearchContent", "SearchContentText", "SearchHighlights",
     "SearchSummary", "SearchResponse", "SearchResult", "FindSimilarRequest",
     "FindSimilarResponse", "ContentsRequest", "ContentsTextRequest",
     "ContentsHighlightsRequest", "ContentsSummaryRequest", "ContentsResponse",
     "ContentsResult", "HttpErrorPayload"}

Fields(T) ==
    CASE T = "SearchRequest" -> SearchRequestFields
      [] T = "SearchContent" -> SearchContentFields
      [] T = "SearchContentText" -> SearchContentTextFields
      [] T = "SearchHighlights" -> SearchHighlightsFields
      [] T = "SearchSummary" -> SearchSummaryFields
      [] T = "SearchResponse" -> SearchResponseFields
      [] T = "SearchResult" -> SearchResultFields
      [] T = "FindSimilarRequest" -> FindSimilarRequestFields
      [] T = "FindSimilarResponse" -> FindSimilarResponseFields
      [] T = "ContentsRequest" -> ContentsRequestFields
      [] T = "ContentsTextRequest" -> ContentsTextRequestFields
      [] T = "ContentsHighlightsRequest" -> ContentsHighlightsRequestFields
      [] T = "ContentsSummaryRequest" -> ContentsSummaryRequestFields
      [] T = "ContentsResponse" -> ContentsResponseFields
      [] T = "ContentsResult" -> ContentsResultFields
      [] T = "HttpErrorPayload" -> HttpErrorPayloadFields

FieldIdx(T) == 1..Len(Fields(T))

FieldNames(T) == {Fields(T)[i].name : i \in FieldIdx(T)}

FieldNamed(T, n) == Fields(T)[CHOOSE i \in FieldIdx(T) : Fields(T)[i].name = n]

FieldOnWire(T, k) == Fields(T)[CHOOSE i \in FieldIdx(T) : Fields(T)[i].wire = k]

\* #[serde(rename_all = "lowercase")] enum SearchKind (search.rs 191-197)
SearchKindWire(k) ==
    CASE k = "Neural" -> "neural"
      [] k = "Keyword" -> "keyword"
      [] k = "Auto" -> "auto"

SearchKindOfWire(s) ==
    CASE s = "neural" -> Some("Neural")
      [] s = "keyword" -> Some("Keyword")
      [] s = "auto" -> Some("Auto")
      [] OTHER -> None

(***************************************************************************)
(* Serialize (serde derive + serde_json): a struct becomes an object with  *)
(* one key per field, a None field is null unless the field is skipped.    *)
(***************************************************************************)
RECURSIVE SerTy(_, _)

\* a Vec is an array of its elements
SerVal(f, x) ==
    IF f.vec THEN JArr([i \in 1..Len(x) |-> SerTy(f.ty, x[i])]) ELSE SerTy(f.ty, x)

\* Option: None is null, Some(x) is x
SerField(f, x) ==
    IF f.opt THEN (IF IsNone(x) THEN JNull ELSE SerVal(f, Unwrap(x))) ELSE SerVal(f, x)

\* skip_serializing_if = "Option::is_none"
Emitted(f, x) == ~(f.skip /\ IsNone(x))

SerStruct(T, s) ==
    JObj([k \in {Fields(T)[i].wire : i \in {j \in FieldIdx(T) : Emitted(Fields(T)[j], s[Fields(T)[j].name])}}
            |-> SerField(FieldOnWire(T, k), s[FieldOnWire(T, k).name])])

SerTy(ty, x) ==
    CASE ty \in {"str", "chars"} -> JStr(x)
      [] ty \in {"u32", "f64"} -> JNum(x)
      [] ty = "bool" -> JBool(x)
      [] ty = "SearchKind" -> JStr(SearchKindWire(x))
      [] OTHER -> SerStruct(ty, x)

\* serde_json::to_vec(&request), as RequestBuilder::json does
ToJson(T, s) == SerStruct(T, s)

(***************************************************************************)
(* Deserialize (serde derive + serde_json): a struct is read from an       *)
(* object; keys that are no field are ignored; a missing or null Option    *)
(* field is None; a missing or ill-typed required field fails the parse.   *)
(***************************************************************************)
RECURSIVE TyOk(_, _)

ValOk(f, j) ==
    IF f.vec
    THEN j.t = "arr" /\ \A i \in DOMAIN j.v : TyOk(f.ty, j.v[i])
    ELSE TyOk(f.ty, j)

FieldOk(f, obj) ==
    IF f.wire \in DOMAIN obj
    THEN (f.opt /\ obj[f.wire].t = "null") \/ ValOk(f, obj[f.wire])
    ELSE f.opt

StructOk(T, j) == j.t = "obj" /\ \A i \in FieldIdx(T) : FieldOk(Fields(T)[i], j.v)

TyOk(ty, j) ==
    CASE ty \in {"str", "chars"} -> j.t = "str"
      [] ty = "u32" -> j.t = "num" /\ j.v >= 0
      [] ty = "f64" -> j.t = "num"
      [] ty = "bool" -> j.t = "bool"
      [] ty = "SearchKind" -> j.t = "str" /\ IsSome(SearchKindOfWire(j.v))
      [] OTHER -> StructOk(ty, j)

RECURSIVE TyVal(_, _)

ValOf(f, j) ==
    IF f.vec THEN [i \in DOMAIN j.v |-> TyVal(f.ty, j.v[i])] ELSE TyVal(f.ty, j)

FieldVal(f, obj) ==
    IF f.opt
    THEN (IF f.wire \in DOMAIN obj /\ obj[f.wire].t # "null"
          THEN Some(ValOf(f, obj[f.wire]))
          ELSE None)
    ELSE ValOf(f, obj[f.wire])

StructVal(T, j) == [n \in FieldNames(T) |-> FieldVal(FieldNamed(T, n), j.v)]

TyVal(ty, j) ==
    CASE ty \in {"str", "chars", "u32", "f64", "bool"} -> j.v
      [] ty = "SearchKind" -> Unwrap(SearchKindOfWire(j.v))
      [] OTHER -> StructVal(ty, j)

\* serde_json::from_str::<T>(text) / Response::json::<T>() on a body that was read:
\* the text must be JSON and the document must match T
Parses(T, body) == body.json /\ StructOk(T, body.doc)

Parsed(T, body) == StructVal(T, body.doc)

(***************************************************************************)
(* Default::default() of the structs that derive Default                   *)
(***************************************************************************)
DefaultTy(ty) == IF ty = "chars" THEN <<>> ELSE ""

DefaultField(f) == IF f.opt THEN None ELSE IF f.vec THEN <<>> ELSE DefaultTy(f.ty)

Default(T) == [n \in FieldNames(T) |-> DefaultField(FieldNamed(T, n))]

(***************************************************************************)
(* Url::parse (the url crate, called at find_similar.rs 40), for an input  *)
(* without a base URL.  Leading and trailing C0-control-or-space is        *)
(* trimmed, tabs and newlines are removed, then the scheme is read: an     *)
(* ASCII letter, then letters, digits, "+", "-", ".", then ":".  Without a *)
(* scheme the input is a relative URL, which fails.  A special scheme      *)
(* needs a host.                                                           *)
(***************************************************************************)
LowerAlpha == {"a", "b", "c", "d", "e", "f", "g", "h", "i", "j", "k", "l", "m", "n", "o", "p", "q", "r", "s", "t", "u", "v", "w", "x", "y", "z"}

UpperAlpha == {"A", "B", "C", "D", "E", "F", "G", "H", "I", "J", "K", "L", "M", "N", "O", "P", "Q", "R", "S", "T", "U", "V", "W", "X", "Y", "Z"}

Digits == {"0", "1", "2", "3", "4", "5", "6", "7", "8", "9"}

ToLower(c) ==
    CASE c = "A" -> "a"
      [] c = "B" -> "b"
      [] c = "C" -> "c"
      [] c = "D" -> "d"
      [] c = "E" -> "e"
      [] c = "F" -> "f"
      [] c = "G" -> "g"
      [] c = "H" -> "h"
      [] c = "I" -> "i"
      [] c = "J" -> "j"
      [] c = "K" -> "k"
      [] c = "L" -> "l"
      [] c = "M" -> "m"
      [] c = "N" -> "n"
      [] c = "O" -> "o"
      [] c = "P" -> "p"
      [] c = "Q" -> "q"
      [] c = "R" -> "r"
      [] c = "S" -> "s"
      [] c = "T" -> "t"
      [] c = "U" -> "u"
      [] c = "V" -> "v"
      [] c = "W" -> "w"
      [] c = "X" -> "x"
      [] c = "Y" -> "y"
      [] c = "Z" -> "z"
      [] OTHER -> c

C0OrSpace == {" ", "\t", "\n", "\r"}

TabOrNewline == {"\t", "\n", "\r"}

SchemeChars == LowerAlpha \cup UpperAlpha \cup Digits \cup {"+", "-", "."}

\* characters that may not occur in a host
ForbiddenHostChars == {" ", "<", ">", "[", "]", "^", "|", "%", "@"}

RECURSIVE TrimStart(_)

TrimStart(s) ==
    IF s # <<>> /\ Head(s) \in C0OrSpace THEN TrimStart(Tail(s)) ELSE s

RECURSIVE TrimEnd(_)

TrimEnd(s) ==
    IF s # <<>> /\ s[Len(s)] \in C0OrSpace THEN TrimEnd(SubSeq(s, 1, Len(s) - 1)) ELSE s

NotTabOrNewline(c) == c \notin TabOrNewline

UrlInput(s) == SelectSeq(TrimEnd(TrimStart(s)), NotTabOrNewline)

\* the position of the ":" that ends the scheme, 0 when there is no scheme
SchemeEnd(t) ==
    LET ends == {i \in 2..Len(t) :
                    /\ t[i] = ":"
                    /\ t[1] \in LowerAlpha \cup UpperAlpha
                    /\ \A k \in 2..(i - 1) : t[k] \in SchemeChars}
    IN IF ends = {} THEN 0 ELSE CHOOSE i \in ends : \A k \in ends : i <= k

SpecialSchemes ==
    {<<"h", "t", "t", "p">>, <<"h", "t", "t", "p", "s">>, <<"w", "s">>, <<"w", "s", "s">>, <<"f", "t", "p">>}

RECURSIVE SkipSlashes(_)

SkipSlashes(r) ==
    IF r # <<>> /\ Head(r) \in {"/", "\\"} THEN SkipSlashes(Tail(r)) ELSE r

RECURSIVE HostOf(_)

\* the host: up to the port, the path, the query or the fragment
HostOf(r) ==
    IF r = <<>> \/ Head(r) \in {"/", "\\", "?", "#", ":"}
    THEN <<>>
    ELSE <<Head(r)>> \o HostOf(Tail(r))

UrlParse(s) ==
    LET t == UrlInput(s)
        e == SchemeEnd(t)
        scheme == [i \in 1..(e - 1) |-> ToLower(t[i])]
        rest == SubSeq(t, e + 1, Len(t))
        host == HostOf(SkipSlashes(rest))
    IN  IF e = 0 THEN Err("RelativeUrlWithoutBase")
        ELSE IF scheme \notin SpecialSchemes THEN Ok([scheme |-> scheme, rest |-> rest])
        ELSE IF host = <<>> THEN Err("EmptyHost")
        ELSE IF \E i \in 1..Len(host) : host[i] \in ForbiddenHostChars
             THEN Err("InvalidDomainCharacter")
        ELSE Ok([scheme |-> scheme, rest |-> rest])

(***************************************************************************)
(* FindSimilarRequest::new (find_similar.rs 38-46)                         *)
(***************************************************************************)
\* new that keeps the parser's trimmed input
FindSimilarRequestNewTrimmed(url) ==
    IF UrlParse(url).ok
    THEN Ok([Default("FindSimilarRequest") EXCEPT !.url = UrlInput(url)])
    ELSE Err([anyhow |-> <<"url::ParseError", UrlParse(url).v>>])

\* new without the Url::parse(&url)? line
FindSimilarRequestNewUnchecked(url) ==
    Ok([Default("FindSimilarRequest") EXCEPT !.url = url])

FindSimilarRequestNew(url) ==
    IF UrlParse(url).ok
    THEN Ok([Default("FindSimilarRequest") EXCEPT !.url = url])
    ELSE Err([anyhow |-> <<"url::ParseError", UrlParse(url).v>>])

\* input strings of the tests
URL_EXAMPLE == <<"h", "t", "t", "p", "s", ":", "/", "/", "e", "x", "a", "m", "p", "l", "e", ".", "c", "o", "m">>

URL_NOT_VALID == <<"n", "o", "t", " ", "a", " ", "v", "a", "l", "i", "d", " ", "u", "r", "l">>

URL_EMPTY == <<>>

(***************************************************************************)
(* The outgoing request                                                    *)
(***************************************************************************)
\* bytes HeaderValue::from_str refuses (of the characters used here)
InvalidHeaderChars == {"\n", "\r"}

\* HeaderValue::from_str(s).is_ok()
IsHeaderValue(s) == \A i \in 1..Len(s) : s[i] \notin InvalidHeaderChars

BEARER == <<"B", "e", "a", "r", "e", "r", " ">>

CONTENTS_PATH == "/contents"

\* RequestBuilder: client.post(url).headers(headers).json(&request)
HttpPost(url, headers, body) ==
    [method |-> "POST", url |-> url, headers |-> headers,
     content_type |-> "application/json", body |-> body]

\* what building the request leads to: the request to send, or a panic of expect
Sending(req) == [panic |-> FALSE, req |-> <<req>>]

Panicking == [panic |-> TRUE, req |-> <<>>]

\* build_headers that reads the variable again when the call is made
BuildHeadersFromEnv(exa) ==
    (API_KEY_HEADER :> IF IsSome(EnvVar(env)) THEN Unwrap(EnvVar(env)) ELSE exa.api_key)

\* Exa::build_headers (lib.rs 57-65)
BuildHeaders(exa) == (API_KEY_HEADER :> exa.api_key)

\* Exa::post, up to send() (lib.rs 44-51)
PostRequest(exa, path, T, request) ==
    IF IsHeaderValue(exa.api_key)
    THEN Sending(HttpPost(exa.base_url \o path, BuildHeaders(exa), ToJson(T, request)))
    ELSE Panicking

\* Exa::search, up to send() (search.rs 51-63)
SearchRequestOut(exa, request) ==
    IF IsHeaderValue(BEARER \o exa.api_key)
    THEN Sending(HttpPost(exa.base_url \o "/search", ("x-api-key" :> BEARER \o exa.api_key),
                          ToJson("SearchRequest", request)))
    ELSE Panicking

\* Exa::find_similar, up to send() (find_similar.rs 53-65)
FindSimilarRequestOut(exa, request) ==
    IF IsHeaderValue(BEARER \o exa.api_key)
    THEN Sending(HttpPost(exa.base_url \o "/findSimilar", ("x-api-key" :> BEARER \o exa.api_key),
                          ToJson("FindSimilarRequest", request)))
    ELSE Panicking

\* Exa::get_contents (get_contents.rs 56-61): self.post("/contents", request)
GetContentsRequestOut(exa, request) ==
    PostRequest(exa, CONTENTS_PATH, "ContentsRequest", request)

Ops == {"search", "find_similar", "get_contents"}

\* what operation op does up to send()
RequestOut(op, exa, request) ==
    CASE op = "search" -> SearchRequestOut(exa, request)
      [] op = "find_similar" -> FindSimilarRequestOut(exa, request)
      [] op = "get_contents" -> GetContentsRequestOut(exa, request)

(***************************************************************************)
(* The server's reaction and its classification                            *)
(***************************************************************************)
\* StatusCode::is_success
IsSuccess(status) == 200 <= status /\ status < 300

\* ExaError::HttpError(HttpError { status, payload })
HttpError(status, payload) == [kind |-> "HttpError", status |-> status, payload |-> payload]

\* impl From<reqwest::Error> for ExaError (error.rs): a reqwest error of kind
\* decode is a DecodeError, any other (request, connect, timeout, body) a
\* TransportError
ExaErrorFromReqwest(k) ==
    [kind |-> IF k = "decode" THEN "DecodeError" ELSE "TransportError",
     status |-> 0, payload |-> <<>>]

\* how a call ends: it returns a Result, or it panics; text is what it wrote
\* to the standard error stream
Returns(r, text) == [panic |-> FALSE, result |-> r, stderr |-> text]

Panics(text) == [panic |-> TRUE, result |-> Err(<<>>), stderr |-> text]

\* handle_response that takes the status from the payload position
HandleResponseSwapped(T, r) ==
    IF ~IsSuccess(r.status)
    THEN IF ~r.body.readable THEN Returns(Err(ExaErrorFromReqwest("body")), <<>>)
         ELSE IF Parses("HttpErrorPayload", r.body)
              THEN Returns(Err(HttpError(r.status,
                        [code |-> Parsed("HttpErrorPayload", r.body).message,
                         message |-> Parsed("HttpErrorPayload", r.body).code])), <<r.body>>)
              ELSE Panics(<<r.body>>)
    ELSE IF ~r.body.readable THEN Returns(Err(ExaErrorFromReqwest("body")), <<>>)
    ELSE IF Parses(T, r.body) THEN Returns(Ok(Parsed(T, r.body)), <<>>)
    ELSE Returns(Err(ExaErrorFromReqwest("decode")), <<>>)

\* handle_response that tries the typed response first, whatever the status
HandleResponseBodyFirst(T, r) ==
    IF ~r.body.readable THEN Returns(Err(ExaErrorFromReqwest("body")), <<>>)
    ELSE IF Parses(T, r.body) THEN Returns(Ok(Parsed(T, r.body)), <<>>)
    ELSE IF Parses("HttpErrorPayload", r.body)
         THEN Returns(Err(HttpError(r.status, Parsed("HttpErrorPayload", r.body))), <<r.body>>)
    ELSE Returns(Err(ExaErrorFromReqwest("decode")), <<>>)

\* handle_response that reports a success body it cannot decode as it reports
\* a failed send
HandleResponseOneKind(T, r) ==
    IF ~IsSuccess(r.status)
    THEN IF ~r.body.readable THEN Returns(Err(ExaErrorFromReqwest("body")), <<>>)
         ELSE IF Parses("HttpErrorPayload", r.body)
              THEN Returns(Err(HttpError(r.status, Parsed("HttpErrorPayload", r.body))),
                           <<r.body>>)
              ELSE Panics(<<r.body>>)
    ELSE IF ~r.body.readable THEN Returns(Err(ExaErrorFromReqwest("body")), <<>>)
    ELSE IF Parses(T, r.body) THEN Returns(Ok(Parsed(T, r.body)), <<>>)
    ELSE Returns(Err(ExaErrorFromReqwest("request")), <<>>)

\* handle_response (lib.rs 68-85)
HandleResponse(T, r) ==
    IF ~IsSuccess(r.status)
    THEN IF ~r.body.readable THEN Returns(Err(ExaErrorFromReqwest("body")), <<>>)
         ELSE IF Parses("HttpErrorPayload", r.body)
              THEN Returns(Err(HttpError(r.status, Parsed("HttpErrorPayload", r.body))),
                           <<r.body>>)
              ELSE Panics(<<r.body>>)
    ELSE IF ~r.body.readable THEN Returns(Err(ExaErrorFromReqwest("body")), <<>>)
    ELSE IF Parses(T, r.body) THEN Returns(Ok(Parsed(T, r.body)), <<>>)
    ELSE Returns(Err(ExaErrorFromReqwest("decode")), <<>>)

\* Exa::post, from send().await? on (lib.rs 46-54)
PostOutcome(T, r) ==
    IF r.kind = "send_error"
    THEN Returns(Err(ExaErrorFromReqwest("request")), <<>>)
    ELSE HandleResponse(T, r)

\* Exa::search, from send().await? on (search.rs 58-76)
SearchOutcome(r) ==
    IF r.kind = "send_error" THEN Returns(Err(ExaErrorFromReqwest("request")), <<>>)
    ELSE IF ~IsSuccess(r.status)
    THEN IF ~r.body.readable THEN Returns(Err(ExaErrorFromReqwest("body")), <<>>)
         ELSE IF Parses("HttpErrorPayload", r.body)
              THEN Returns(Err(HttpError(r.status, Parsed("HttpErrorPayload", r.body))), <<>>)
              ELSE Returns(Err(ExaErrorFromReqwest("decode")), <<>>)
    ELSE IF ~r.body.readable THEN Returns(Err(ExaErrorFromReqwest("body")), <<>>)
    ELSE IF Parses("SearchResponse", r.body)
         THEN Returns(Ok(Parsed("SearchResponse", r.body)), <<>>)
    ELSE Returns(Err(ExaErrorFromReqwest("decode")), <<>>)

\* Exa::find_similar, from send().await? on (find_similar.rs 60-78)
FindSimilarOutcome(r) ==
    IF r.kind = "send_error" THEN Returns(Err(ExaErrorFromReqwest("request")), <<>>)
    ELSE IF ~IsSuccess(r.status)
    THEN IF ~r.body.readable THEN Returns(Err(ExaErrorFromReqwest("body")), <<>>)
         ELSE IF Parses("HttpErrorPayload", r.body)
              THEN Returns(Err(HttpError(r.status, Parsed("HttpErrorPayload", r.body))), <<>>)
              ELSE Returns(Err(ExaErrorFromReqwest("decode")), <<>>)
    ELSE IF ~r.body.readable THEN Returns(Err(ExaErrorFromReqwest("body")), <<>>)
    ELSE IF Parses("FindSimilarResponse", r.body)
         THEN Returns(Ok(Parsed("FindSimilarResponse", r.body)), <<>>)
    ELSE Returns(Err(ExaErrorFromReqwest("decode")), <<>>)

\* Exa::get_contents (get_contents.rs 56-61)
GetContentsOutcome(r) == PostOutcome("ContentsResponse", r)

\* how operation op ends on reaction r of the server
OutcomeOf(op, r) ==
    CASE op = "search" -> SearchOutcome(r)
      [] op = "find_similar" -> FindSimilarOutcome(r)
      [] op = "get_contents" -> GetContentsOutcome(r)

(***************************************************************************)
(* Inputs: the request values the caller builds                            *)
(***************************************************************************)
\* an object given as a sequence of <<key, value>> pairs
Obj(pairs) ==
    JObj([k \in {pairs[i][1] : i \in DOMAIN pairs}
            |-> pairs[CHOOSE i \in DOMAIN pairs : pairs[i][1] = k][2]])

SearchRequests ==
    { [Default("SearchRequest") EXCEPT !.query = "test query"],
      [Default("SearchRequest") EXCEPT !.query = "test query",
                                       !.use_autoprompt = Some(TRUE),
                                       !.num_results = Some(1)],
      [Default("SearchRequest") EXCEPT !.query = "test query",
                                       !.include_domains = Some(<<"example.com">>),
                                       !.contents = Some(Default("SearchContent"))] }

FindSimilarLiterals ==
    { [Default("FindSimilarRequest") EXCEPT !.url = URL_EXAMPLE, !.num_results = Some(1)],
      [Default("FindSimilarRequest") EXCEPT !.url = URL_NOT_VALID] }

ContentsRequests ==
    { [ids |-> <<"test_id">>,
       text |-> Some([max_characters |-> Some(100), include_html_tags |-> Some(FALSE)]),
       highlights |-> Some([num_sentences |-> Some(1), highlights_per_url |-> Some(1),
                            query |-> Some("test")]),
       summary |-> None],
      [ids |-> <<>>, text |-> None, highlights |-> None, summary |-> None],
      [ids |-> <<"test_id">>, text |-> None, highlights |-> None,
       summary |-> Some([query |-> None])] }

\* the strings FindSimilarRequest::new is called with
UrlLiterals == {URL_EXAMPLE, URL_NOT_VALID, URL_EMPTY}

UrlAlphabet == {"a", "1", ":", " ", "."}

RECURSIVE StringsOfLen(_)

StringsOfLen(n) ==
    IF n = 0 THEN {<<>>}
    ELSE {Append(t, c) : t \in StringsOfLen(n - 1), c \in UrlAlphabet}

UrlStrings == UNION {StringsOfLen(n) : n \in 0..MaxUrlLen} \cup UrlLiterals

(***************************************************************************)
(* Inputs: what the server does with a request                             *)
(***************************************************************************)
Body(doc) == [readable |-> TRUE, json |-> TRUE, doc |-> doc]

\* the connection breaks while the body is read
UnreadableBody == [readable |-> FALSE, json |-> FALSE, doc |-> JNull]

\* a body that is no JSON text
TextBody == [readable |-> TRUE, json |-> FALSE, doc |-> JNull]

ErrorDoc ==
    Obj(<< <<"code", JStr("bad_request")>>,
           <<"message", JStr("Invalid request parameters")>> >>)

SearchDoc ==
    Obj(<< <<"results", JArr(<< Obj(<< <<"id", JStr("test_id")>>,
                                       <<"title", JStr("Test Title")>>,
                                       <<"url", JStr("https://example.com")>>,
                                       <<"score", JNum(95)>>,
                                       <<"publishedDate", JStr("2023-01-01")>>,
                                       <<"author", JStr("Test Author")>> >>) >>)>>,
           <<"autopromptString", JStr("Expanded query")>> >>)

ContentsDoc ==
    Obj(<< <<"results", JArr(<< Obj(<< <<"id", JStr("test_id")>>,
                                       <<"url", JStr("https://example.com")>>,
                                       <<"title", JStr("Test Title")>>,
                                       <<"text", JStr("Test content")>>,
                                       <<"highlights", JArr(<<JStr("Test highlight")>>)>>,
                                       <<"highlight_scores", JArr(<<JNum(95)>>)>> >>) >>)>> >>)

ContentsCamelDoc ==
    Obj(<< <<"results", JArr(<< Obj(<< <<"id", JStr("test_id")>>,
                                       <<"url", JStr("https://example.com")>>,
                                       <<"title", JStr("Test Title")>>,
                                       <<"highlightScores", JArr(<<JNum(95)>>)>> >>) >>)>> >>)

\* an error payload that is a response of every operation as well
BothDoc ==
    Obj(<< <<"code", JStr("bad_request")>>,
           <<"message", JStr("Invalid request parameters")>>,
           <<"results", JArr(<<>>)>> >>)

EmptyDoc == JObj(<<>>)

Bodies ==
    << UnreadableBody, TextBody, Body(ErrorDoc), Body(SearchDoc), Body(ContentsDoc),
       Body(ContentsCamelDoc), Body(BothDoc), Body(EmptyDoc) >>

Statuses == {200, 299, 300, 400, 401}

\* send() fails: no response
SendError == [kind |-> "send_error", status |-> 0, body |-> UnreadableBody]

Response(status, body) == [kind |-> "response", status |-> status, body |-> body]

Reactions ==
    {SendError} \cup {Response(st, Bodies[i]) : st \in Statuses, i \in DOMAIN Bodies}

(***************************************************************************)
(* State                                                                   *)
(*   env      the process environment's EXA_API_KEY                        *)
(*   builder  the ExaBuilder the caller is configuring, if any             *)
(*   built    the last ExaBuilder::build: its inputs and its Result        *)
(*   held     the request value the caller has built and how               *)
(*   call     the endpoint call: where it is, what it sent, how it ended   *)
(*   peer     an endpoint call of a second task on the same client         *)
(*   ncalls   the number of calls made so far                              *)
(***************************************************************************)
NoHeld ==
    [made |-> FALSE, op |-> "none", how |-> "none", arg |-> <<>>, result |-> Err(<<>>)]

Held(op, how, arg, result) ==
    [made |-> TRUE, op |-> op, how |-> how, arg |-> arg, result |-> result]

Idle ==
    [pc |-> "idle", op |-> "none", how |-> "none", exa |-> <<>>, request |-> <<>>,
     out |-> <<>>, reaction |-> SendError, result |-> Err(<<>>), stderr |-> <<>>]

Init ==
    /\ env = EnvUnset
    /\ builder = None
    /\ built = NoBuild
    /\ held = NoHeld
    /\ call = Idle
    /\ peer = Idle
    /\ ncalls = 0

(***************************************************************************)
(* The environment and the construction of the client                      *)
(***************************************************************************)
\* the process environment changes (std::env::set_var / remove_var)
SetEnv(e) ==
    /\ e # env
    /\ env' = e
    /\ UNCHANGED <<builder, built, held, call, peer, ncalls>>

CallerFree == call.pc = "idle" /\ ~held.made

\* Exa::builder() (lib.rs 31-36)
Builder ==
    /\ CallerFree
    /\ peer.pc = "idle"
    /\ builder = None
    /\ builder' = Some(NewExaBuilder)
    /\ UNCHANGED <<env, built, held, call, peer, ncalls>>

\* ExaBuilder::api_key (lib.rs 88-91)
ApiKey(k) ==
    /\ IsSome(builder)
    /\ builder' = Some([Unwrap(builder) EXCEPT !.api_key = Some(k)])
    /\ UNCHANGED <<env, built, held, call, peer, ncalls>>

\* ExaBuilder::base_url (lib.rs 93-96)
SetBaseUrl(u) ==
    /\ IsSome(builder)
    /\ builder' = Some([Unwrap(builder) EXCEPT !.base_url = Some(u)])
    /\ UNCHANGED <<env, built, held, call, peer, ncalls>>

\* ExaBuilder::build (lib.rs 98-105): consumes the builder
Build ==
    /\ IsSome(builder)
    /\ built' = [done |-> TRUE, b |-> Unwrap(builder), env |-> env,
                 result |-> BuildExa(Unwrap(builder), env)]
    /\ builder' = None
    /\ UNCHANGED <<env, held, call, peer, ncalls>>

(***************************************************************************)
(* The caller builds a request value                                       *)
(***************************************************************************)
CanMake == CallerFree /\ builder = None /\ HasClient /\ ncalls < MaxCalls

\* SearchRequest { query, .., ..Default::default() }
MakeSearchRequest(r) ==
    /\ CanMake
    /\ held' = Held("search", "literal", <<>>, Ok(r))
    /\ UNCHANGED <<env, builder, built, call, peer, ncalls>>

\* FindSimilarRequest { url, .., ..Default::default() }
MakeFindSimilarRequest(r) ==
    /\ CanMake
    /\ held' = Held("find_similar", "literal", <<>>, Ok(r))
    /\ UNCHANGED <<env, builder, built, call, peer, ncalls>>

\* FindSimilarRequest::default()
DefaultFindSimilarRequest ==
    /\ CanMake
    /\ held' = Held("find_similar", "default", <<>>, Ok(Default("FindSimilarRequest")))
    /\ UNCHANGED <<env, builder, built, call, peer, ncalls>>

\* FindSimilarRequest::new(url)
NewFindSimilarRequest(url) ==
    /\ CallerFree
    /\ builder = None
    /\ held' = Held("find_similar", "new", url, FindSimilarRequestNew(url))
    /\ UNCHANGED <<env, builder, built, call, peer, ncalls>>

\* ContentsRequest { ids, text, highlights, summary }
MakeContentsRequest(r) ==
    /\ CanMake
    /\ held' = Held("get_contents", "literal", <<>>, Ok(r))
    /\ UNCHANGED <<env, builder, built, call, peer, ncalls>>

\* the caller drops a request value or the error of new
DropHeld ==
    /\ held.made
    /\ call.pc = "idle"
    /\ held' = NoHeld
    /\ UNCHANGED <<env, builder, built, call, peer, ncalls>>

(***************************************************************************)
(* The calls: up to the await of send(), and from the response on          *)
(***************************************************************************)
CanCall(op) ==
    /\ HasClient
    /\ builder = None
    /\ call.pc = "idle"
    /\ ncalls < MaxCalls
    /\ held.made /\ held.op = op /\ held.result.ok

Started(op, sending) ==
    [pc |-> IF sending.panic THEN "panicked" ELSE "sent", op |-> op, how |-> held.how,
     exa |-> Exa, request |-> held.result.v, out |-> sending.req,
     reaction |-> SendError, result |-> Err(<<>>), stderr |-> <<>>]

Ended(r, outcome) ==
    [call EXCEPT !.pc = IF outcome.panic THEN "panicked" ELSE "done",
                 !.reaction = r, !.result = outcome.result, !.stderr = outcome.stderr]

SearchSend ==
    /\ CanCall("search")
    /\ call' = Started("search", SearchRequestOut(Exa, held.result.v))
    /\ held' = NoHeld
    /\ ncalls' = ncalls + 1
    /\ UNCHANGED <<env, builder, built, peer>>

SearchRecv(r) ==
    /\ call.pc = "sent" /\ call.op = "search"
    /\ call' = Ended(r, SearchOutcome(r))
    /\ UNCHANGED <<env, builder, built, held, peer, ncalls>>

FindSimilarSend ==
    /\ CanCall("find_similar")
    /\ call' = Started("find_similar", FindSimilarRequestOut(Exa, held.result.v))
    /\ held' = NoHeld
    /\ ncalls' = ncalls + 1
    /\ UNCHANGED <<env, builder, built, peer>>

FindSimilarRecv(r) ==
    /\ call.pc = "sent" /\ call.op = "find_similar"
    /\ call' = Ended(r, FindSimilarOutcome(r))
    /\ UNCHANGED <<env, builder, built, held, peer, ncalls>>

GetContentsSend ==
    /\ CanCall("get_contents")
    /\ call' = Started("get_contents", GetContentsRequestOut(Exa, held.result.v))
    /\ held' = NoHeld
    /\ ncalls' = ncalls + 1
    /\ UNCHANGED <<env, builder, built, peer>>

GetContentsRecv(r) ==
    /\ call.pc = "sent" /\ call.op = "get_contents"
    /\ call' = Ended(r, GetContentsOutcome(r))
    /\ UNCHANGED <<env, builder, built, held, peer, ncalls>>

\* the caller drops the Result of a call
DropResult ==
    /\ call.pc = "done"
    /\ call' = Idle
    /\ UNCHANGED <<env, builder, built, held, peer, ncalls>>

Next ==
    \/ Builder
    \/ \E k \in ExplicitKeys : ApiKey(k)
    \/ \E u \in BaseUrls : SetBaseUrl(u)
    \/ Build
    \/ \E r \in SearchRequests : MakeSearchRequest(r)
    \/ \E r \in FindSimilarLiterals : MakeFindSimilarRequest(r)
    \/ DefaultFindSimilarRequest
    \/ \E u \in UrlLiterals : NewFindSimilarRequest(u)
    \/ \E r \in ContentsRequests : MakeContentsRequest(r)
    \/ DropHeld
    \/ SearchSend
    \/ \E r \in Reactions : SearchRecv(r)
    \/ FindSimilarSend
    \/ \E r \in Reactions : FindSimilarRecv(r)
    \/ GetContentsSend
    \/ \E r \in Reactions : GetContentsRecv(r)
    \/ DropResult
    \/ \E e \in EnvStates : SetEnv(e)

Spec == Init /\ [][Next]_vars

(***************************************************************************)
(* FindSimilarRequest::new on every string of up to MaxUrlLen characters   *)
(***************************************************************************)
NextNew ==
    \/ \E u \in UrlStrings : NewFindSimilarRequest(u)
    \/ DropHeld

SpecNew == Init /\ [][NextNew]_vars

(***************************************************************************)
(* Two tasks that call the same client concurrently: the calls of the      *)
(* second task are in peer                                                 *)
(***************************************************************************)
\* the request value each task passes to an operation
ConcurrentRequest(op) ==
    CASE op = "search" ->
            [Default("SearchRequest") EXCEPT !.query = "test query",
                                             !.num_results = Some(1)]
      [] op = "find_similar" ->
            [Default("FindSimilarRequest") EXCEPT !.url = URL_EXAMPLE,
                                                  !.num_results = Some(1)]
      [] op = "get_contents" ->
            [ids |-> <<"test_id">>, text |-> None, highlights |-> None, summary |-> None]

ConcurrentReactions ==
    {SendError, Response(200, Body(SearchDoc)), Response(200, Body(ContentsDoc)),
     Response(400, Body(ErrorDoc))}

\* the second task calls op(request), up to the await of send()
PeerSend(op, request) ==
    /\ HasClient
    /\ builder = None
    /\ peer.pc = "idle"
    /\ ncalls < MaxCalls
    /\ peer' = [pc |-> IF RequestOut(op, Exa, request).panic THEN "panicked" ELSE "sent",
                op |-> op, how |-> "literal", exa |-> Exa, request |-> request,
                out |-> RequestOut(op, Exa, request).req,
                reaction |-> SendError, result |-> Err(<<>>), stderr |-> <<>>]
    /\ ncalls' = ncalls + 1
    /\ UNCHANGED <<env, builder, built, held, call>>

\* the call of the second task, from the response on
PeerRecv(r) ==
    /\ peer.pc = "sent"
    /\ peer' = [peer EXCEPT !.pc = IF OutcomeOf(peer.op, r).panic THEN "panicked" ELSE "done",
                            !.reaction = r,
                            !.result = OutcomeOf(peer.op, r).result,
                            !.stderr = OutcomeOf(peer.op, r).stderr]
    /\ UNCHANGED <<env, builder, built, held, call, ncalls>>

\* the second task drops the Result of its call
PeerDrop ==
    /\ peer.pc = "done"
    /\ peer' = Idle
    /\ UNCHANGED <<env, builder, built, held, call, ncalls>>

NextConcurrent ==
    \/ Builder
    \/ \E k \in ExplicitKeys : ApiKey(k)
    \/ \E u \in BaseUrls : SetBaseUrl(u)
    \/ Build
    \/ MakeSearchRequest(ConcurrentRequest("search"))
    \/ MakeFindSimilarRequest(ConcurrentRequest("find_similar"))
    \/ MakeContentsRequest(ConcurrentRequest("get_contents"))
    \/ SearchSend
    \/ \E r \in ConcurrentReactions : SearchRecv(r)
    \/ FindSimilarSend
    \/ \E r \in ConcurrentReactions : FindSimilarRecv(r)
    \/ GetContentsSend
    \/ \E r \in ConcurrentReactions : GetContentsRecv(r)
    \/ DropResult
    \/ \E op \in Ops : PeerSend(op, ConcurrentRequest(op))
    \/ \E r \in ConcurrentReactions : PeerRecv(r)
    \/ PeerDrop
    \/ \E e \in EnvStates : SetEnv(e)

SpecConcurrent == Init /\ [][NextConcurrent]_vars

(***************************************************************************)
(* Vocabulary of the claims                                                *)
(***************************************************************************)
RequestType(op) ==
    CASE op = "search" -> "SearchRequest"
      [] op = "find_similar" -> "FindSimilarRequest"
      [] op = "get_contents" -> "ContentsRequest"

ResponseType(op) ==
    CASE op = "search" -> "SearchResponse"
      [] op = "find_similar" -> "FindSimilarResponse"
      [] op = "get_contents" -> "ContentsResponse"

\* the call has ended: it returned or it panicked
CallEnded == call.pc \in {"done", "panicked"}

\* the call ended on a response of the server
Responded == CallEnded /\ call.reaction.kind = "response"

InSuccessRange(status) == status \in 200..299

\* the body is JSON text of the shape {code, message}
IsErrorPayload(body) ==
    /\ body.readable /\ body.json /\ body.doc.t = "obj"
    /\ {"code", "message"} \subseteq Keys(body.doc)
    /\ body.doc.v["code"].t = "str" /\ body.doc.v["message"].t = "str"

\* the error of build for a missing key: it names the variable that was read
MissingCredential(e) == \E i \in DOMAIN e.anyhow : e.anyhow[i] = EnvVarName

\* the error of FindSimilarRequest::new for a string that is no URL
InvalidInput(e) == Len(e.anyhow) = 2 /\ e.anyhow[1] = "url::ParseError"

(***************************************************************************)
(* C1  API key precedence of ExaBuilder::build                             *)
(***************************************************************************)
\* C1, as stated: an explicit key is used whenever supplied; otherwise the
\* environment variable is used whenever it is set; with neither, build fails
\* with a MissingCredential error naming the variable; with either source set,
\* build succeeds.
C1_AsStated ==
    built.done =>
        /\ IsSome(built.b.api_key) =>
              built.result.ok /\ built.result.v.api_key = Unwrap(built.b.api_key)
        /\ IsNone(built.b.api_key) /\ built.env.set =>
              built.result.ok /\ built.result.v.api_key = built.env.value
        /\ IsNone(built.b.api_key) /\ ~built.env.set =>
              ~built.result.ok /\ MissingCredential(built.result.v)

\* C1, amended: an explicit key is used whenever supplied, also when the
\* environment variable is set; otherwise the environment variable is used when
\* it is set to valid Unicode; build fails with a MissingCredential error naming
\* the variable, and produces no client, exactly when no explicit key is
\* supplied and the variable is unset or not valid Unicode.
C1_KeyPrecedence ==
    built.done =>
        /\ IsSome(built.b.api_key) =>
              built.result.ok /\ built.result.v.api_key = Unwrap(built.b.api_key)
        /\ IsNone(built.b.api_key) /\ built.env.set /\ built.env.unicode =>
              built.result.ok /\ built.result.v.api_key = built.env.value
        /\ IsNone(built.b.api_key) /\ ~(built.env.set /\ built.env.unicode) =>
              ~built.result.ok /\ MissingCredential(built.result.v) /\ ~HasClient

\* an explicit key and a different key in the environment: the explicit one won
C1_Witness ==
    /\ built.done
    /\ built.b.api_key = Some(TEST_KEY)
    /\ built.env = EnvSet(ENV_KEY)
    /\ built.result.ok /\ built.result.v.api_key = TEST_KEY

(***************************************************************************)
(* C2  a non-success status with an error payload is an HttpError          *)
(***************************************************************************)
\* C2: for each operation, a response with a non-success status whose body
\* parses as {code, message} ends the call with HttpError carrying that
\* status, code and message, and with no response value.
C2_HttpError ==
    Responded /\ ~InSuccessRange(call.reaction.status)
              /\ IsErrorPayload(call.reaction.body) =>
        /\ call.pc = "done"
        /\ ~call.result.ok
        /\ call.result.v.kind = "HttpError"
        /\ call.result.v.status = call.reaction.status
        /\ call.result.v.payload.code = call.reaction.body.doc.v["code"].v
        /\ call.result.v.payload.message = call.reaction.body.doc.v["message"].v

\* get_contents answered 400 {"code": "bad_request", ..}
C2_Witness ==
    /\ call.pc = "done" /\ call.op = "get_contents"
    /\ call.reaction = Response(400, Body(ErrorDoc))
    /\ ~call.result.ok /\ call.result.v.kind = "HttpError"

(***************************************************************************)
(* C3  the status alone classifies the response                            *)
(***************************************************************************)
\* C3: for every operation, a response with a status in 200-299 is decoded as
\* the operation's typed response (the call succeeds exactly when the body
\* parses as that type) and is never reported as an HttpError, whatever its
\* body; a response with any other status never yields a response value, even
\* when its body parses as the typed response.
C3_StatusClassifies ==
    Responded =>
        IF InSuccessRange(call.reaction.status)
        THEN /\ call.pc = "done"
             /\ call.result.ok <=>
                   call.reaction.body.readable
                   /\ Parses(ResponseType(call.op), call.reaction.body)
             /\ call.result.ok =>
                   call.result.v = Parsed(ResponseType(call.op), call.reaction.body)
             /\ ~call.result.ok => call.result.v.kind # "HttpError"
        ELSE ~(call.pc = "done" /\ call.result.ok)

\* get_contents answered 400 with a body that is a valid ContentsResponse
C3_Witness ==
    /\ CallEnded /\ call.op = "get_contents"
    /\ call.reaction.kind = "response" /\ call.reaction.status = 400
    /\ call.reaction.body = Body(BothDoc)
    /\ Parses("ContentsResponse", call.reaction.body)
    /\ ~call.result.ok

(***************************************************************************)
(* C4  an error body that is no error payload                              *)
(***************************************************************************)
\* C4: for each operation, a response with a non-success status whose body
\* does not parse as {code, message} makes the call return a DecodeError; the
\* call never panics and never reports an HttpError.
C4_ErrorBodyDecodeError ==
    Responded /\ ~InSuccessRange(call.reaction.status)
              /\ call.reaction.body.readable
              /\ ~IsErrorPayload(call.reaction.body) =>
        /\ call.pc = "done"
        /\ ~call.result.ok
        /\ call.result.v.kind = "DecodeError"

(***************************************************************************)
(* C5  one authentication header convention                                *)
(***************************************************************************)
\* the headers operation op attaches for a client (they do not depend on the
\* request value)
HeadersOf(op, exa) ==
    CASE op = "search" ->
            SearchRequestOut(exa, Default("SearchRequest")).req[1].headers
      [] op = "find_similar" ->
            FindSimilarRequestOut(exa, Default("FindSimilarRequest")).req[1].headers
      [] op = "get_contents" ->
            GetContentsRequestOut(exa, [ids |-> <<>>, text |-> None, highlights |-> None,
                                        summary |-> None]).req[1].headers

\* C5: the authentication header (its name and its value for the client's key)
\* of a request that was sent is the one each of the three operations attaches
\* for that client.
C5_OneHeaderConvention ==
    call.out # <<>> =>
        \A op \in Ops : HeadersOf(op, call.exa) = call.out[1].headers

(***************************************************************************)
(* C6  the operations delegate to the shared dispatch                      *)
(***************************************************************************)
FixedPath(op) ==
    CASE op = "search" -> "/search"
      [] op = "find_similar" -> "/findSimilar"
      [] op = "get_contents" -> "/contents"

\* C6: the request an operation sends (or its panic) is that of
\* post(fixed path, request) for the same client, and the outcome of the call
\* is that of post for the same reaction of the server.
C6_PureDelegation ==
    /\ call.pc # "idle" =>
          LET p == PostRequest(call.exa, FixedPath(call.op), RequestType(call.op),
                               call.request)
          IN  call.out = p.req /\ (p.panic <=> call.pc = "panicked" /\ call.out = <<>>)
    /\ CallEnded /\ call.out # <<>> =>
          LET o == PostOutcome(ResponseType(call.op), call.reaction)
          IN  /\ o.panic <=> call.pc = "panicked"
              /\ ~o.panic => call.result = o.result

(***************************************************************************)
(* C7  unset optional fields are not on the wire                           *)
(***************************************************************************)
\* every Option field of the struct is None
OnlyRequiredSet(T, s) ==
    \A i \in FieldIdx(T) : Fields(T)[i].opt => IsNone(s[Fields(T)[i].name])

\* C7: the payload of a request value with only its required fields set has
\* no key of an optional field and no null.
C7_UnsetOmitted ==
    call.out # <<>> /\ OnlyRequiredSet(RequestType(call.op), call.request) =>
        \A k \in Keys(call.out[1].body) :
            /\ call.out[1].body.v[k].t # "null"
            /\ ~FieldOnWire(RequestType(call.op), k).opt

(***************************************************************************)
(* C8  optional fields are camelCase on the wire, both ways                *)
(***************************************************************************)
\* the words of a snake_case field name
Words(n) ==
    CASE n = "author" -> <<"author">>
      [] n = "auto_date" -> <<"auto", "date">>
      [] n = "autoprompt_string" -> <<"autoprompt", "string">>
      [] n = "code" -> <<"code">>
      [] n = "contents" -> <<"contents">>
      [] n = "end_crawl_date" -> <<"end", "crawl", "date">>
      [] n = "end_published_date" -> <<"end", "published", "date">>
      [] n = "exclude_domains" -> <<"exclude", "domains">>
      [] n = "exclude_text" -> <<"exclude", "text">>
      [] n = "highlight_scores" -> <<"highlight", "scores">>
      [] n = "highlights" -> <<"highlights">>
      [] n = "highlights_per_url" -> <<"highlights", "per", "url">>
      [] n = "id" -> <<"id">>
      [] n = "ids" -> <<"ids">>
      [] n = "include_domains" -> <<"include", "domains">>
      [] n = "include_html_tags" -> <<"include", "html", "tags">>
      [] n = "include_text" -> <<"include", "text">>
      [] n = "kind" -> <<"kind">>
      [] n = "max_characters" -> <<"max", "characters">>
      [] n = "message" -> <<"message">>
      [] n = "num_results" -> <<"num", "results">>
      [] n = "num_sentences" -> <<"num", "sentences">>
      [] n = "published_date" -> <<"published", "date">>
      [] n = "query" -> <<"query">>
      [] n = "results" -> <<"results">>
      [] n = "score" -> <<"score">>
      [] n = "start_crawl_date" -> <<"start", "crawl", "date">>
      [] n = "start_published_date" -> <<"start", "published", "date">>
      [] n = "summary" -> <<"summary">>
      [] n = "text" -> <<"text">>
      [] n = "title" -> <<"title">>
      [] n = "url" -> <<"url">>
      [] n = "use_autoprompt" -> <<"use", "autoprompt">>

Capitalized(w) ==
    CASE w = "author" -> "Author"
      [] w = "auto" -> "Auto"
      [] w = "autoprompt" -> "Autoprompt"
      [] w = "characters" -> "Characters"
      [] w = "code" -> "Code"
      [] w = "contents" -> "Contents"
      [] w = "crawl" -> "Crawl"
      [] w = "date" -> "Date"
      [] w = "domains" -> "Domains"
      [] w = "end" -> "End"
      [] w = "exclude" -> "Exclude"
      [] w = "highlight" -> "Highlight"
      [] w = "highlights" -> "Highlights"
      [] w = "html" -> "Html"
      [] w = "id" -> "Id"
      [] w = "ids" -> "Ids"
      [] w = "include" -> "Include"
      [] w = "kind" -> "Kind"
      [] w = "max" -> "Max"
      [] w = "message" -> "Message"
      [] w = "num" -> "Num"
      [] w = "per" -> "Per"
      [] w = "published" -> "Published"
      [] w = "query" -> "Query"
      [] w = "results" -> "Results"
      [] w = "score" -> "Score"
      [] w = "scores" -> "Scores"
      [] w = "sentences" -> "Sentences"
      [] w = "start" -> "Start"
      [] w = "string" -> "String"
      [] w = "summary" -> "Summary"
      [] w = "tags" -> "Tags"
      [] w = "text" -> "Text"
      [] w = "title" -> "Title"
      [] w = "url" -> "Url"
      [] w = "use" -> "Use"

RECURSIVE CamelTail(_)

CamelTail(ws) == IF ws = <<>> THEN "" ELSE Capitalized(Head(ws)) \o CamelTail(Tail(ws))

\* num_results is numResults
CamelCase(n) == Head(Words(n)) \o CamelTail(Tail(Words(n)))

\* the optional fields of a struct that are set in a value of it
SetOptionals(T, s) ==
    {n \in FieldNames(T) : FieldNamed(T, n).opt /\ IsSome(s[n])}

\* C8: every optional field that is set in a request that was sent is on the
\* wire under the camelCase of its name; and every optional field of a result
\* entry that the response carries under the camelCase of its name is set in
\* the decoded entry.
C8_CamelCaseBothWays ==
    /\ call.out # <<>> =>
          \A n \in SetOptionals(RequestType(call.op), call.request) :
              CamelCase(n) \in Keys(call.out[1].body)
    /\ call.pc = "done" /\ call.result.ok =>
          LET T == FieldNamed(ResponseType(call.op), "results").ty
              wire == call.reaction.body.doc.v["results"].v
          IN  \A i \in DOMAIN wire : \A n \in FieldNames(T) :
                  FieldNamed(T, n).opt /\ CamelCase(n) \in Keys(wire[i])
                  /\ wire[i].v[CamelCase(n)].t # "null"
                      => IsSome(call.result.v.results[i][n])

(***************************************************************************)
(* C9  FindSimilarRequest::new                                             *)
(***************************************************************************)
\* C9: for every input string, new fails with an InvalidInput error and no
\* request value when the string does not parse as a URL, and otherwise
\* succeeds with a request whose url is the input string unchanged and whose
\* optional fields are all unset; no network request is issued.
C9_NewValidates ==
    held.made /\ held.how = "new" =>
        /\ IF UrlParse(held.arg).ok
           THEN /\ held.result.ok
                /\ held.result.v.url = held.arg
                /\ OnlyRequiredSet("FindSimilarRequest", held.result.v)
           ELSE ~held.result.ok /\ InvalidInput(held.result.v)
        /\ call.out = <<>> /\ ncalls = 0

\* " a:" parses (the parser trims it) and is kept as it was given
C9_Witness ==
    /\ held.made /\ held.how = "new"
    /\ held.arg = <<" ", "a", ":">>
    /\ held.result.ok /\ held.result.v.url = <<" ", "a", ":">>

(***************************************************************************)
(* C10  validation before the network                                      *)
(***************************************************************************)
\* C10, as stated: a find_similar call whose request has a url that is no
\* well-formed URL sends no network request, however the request was built.
C10_AsStated ==
    call.op = "find_similar" /\ ~UrlParse(call.request.url).ok => call.out = <<>>

\* C10, amended: the url is validated by the constructor alone.  new on a
\* string that is no well-formed URL fails with InvalidInput and gives no
\* request value, so no call and no network request is made for it, and every
\* find_similar call on a request built by new has a well-formed url; a
\* request built from the default value or by direct field assignment is not
\* validated by find_similar and is sent.
C10_ConstructorValidates ==
    /\ held.made /\ held.how = "new" /\ ~UrlParse(held.arg).ok =>
          ~held.result.ok /\ InvalidInput(held.result.v) /\ call.pc = "idle"
    /\ call.op = "find_similar" /\ call.how = "new" => UrlParse(call.request.url).ok
    /\ call.op = "find_similar" /\ call.how # "new" /\ call.pc = "sent" =>
          Len(call.out) = 1 /\ call.out[1].body.v["url"].v = call.request.url

\* new("not a valid url") has failed and nothing was sent
C10_Witness ==
    /\ held.made /\ held.how = "new" /\ held.arg = URL_NOT_VALID
    /\ ~held.result.ok /\ InvalidInput(held.result.v)
    /\ HasClient /\ call.out = <<>>

(***************************************************************************)
(* C11  every call ends in exactly one outcome                             *)
(***************************************************************************)
ErrorKinds == {"TransportError", "HttpError", "DecodeError"}

\* C11: a call that has ended has returned to its caller (it has not
\* panicked), and what it returned is either the typed response decoded in
\* full from the body of the response it got, or one error whose kind is one
\* of TransportError, HttpError and DecodeError.
C11_ExactlyOneOutcome ==
    CallEnded =>
        /\ call.pc = "done"
        /\ IF call.result.ok
           THEN /\ call.reaction.kind = "response"
                /\ Parses(ResponseType(call.op), call.reaction.body)
                /\ call.result.v = Parsed(ResponseType(call.op), call.reaction.body)
           ELSE call.result.v.kind \in ErrorKinds

(***************************************************************************)
(* C12  a success body that does not decode                                *)
(***************************************************************************)
\* C12: a response with a status in 200-299 whose body was read and does not
\* parse as the operation's typed response ends the call with a DecodeError;
\* that error differs in kind from the error the same operation returns when
\* send() fails, which is a TransportError, and it is no HttpError.
C12_DecodeErrorDistinct ==
    Responded /\ InSuccessRange(call.reaction.status)
              /\ call.reaction.body.readable
              /\ ~Parses(ResponseType(call.op), call.reaction.body) =>
        /\ call.pc = "done"
        /\ ~call.result.ok
        /\ call.result.v.kind = "DecodeError"
        /\ OutcomeOf(call.op, SendError).result.v.kind = "TransportError"
        /\ call.result.v.kind # OutcomeOf(call.op, SendError).result.v.kind
        /\ call.result.v.kind # "HttpError"

\* get_contents answered 200 with a body that has no results
C12_Witness ==
    /\ call.pc = "done" /\ call.op = "get_contents"
    /\ call.reaction = Response(200, Body(ErrorDoc))
    /\ ~call.result.ok /\ call.result.v.kind = "DecodeError"

(***************************************************************************)
(* C13  a call has no effect but its request and its result                *)
(***************************************************************************)
\* C13: a call issues at most one HTTP request; a call that has returned,
\* with a response or with an error of any kind, has written nothing to the
\* standard error stream, and what it returned is what its operation makes of
\* the reaction of the server to its own request.
C13_OnlyRequestAndResult ==
    /\ Len(call.out) <= 1
    /\ call.pc = "done" =>
          /\ call.stderr = <<>>
          /\ call.result = OutcomeOf(call.op, call.reaction).result

(***************************************************************************)
(* C14  the configuration is fixed at construction, calls are independent  *)
(***************************************************************************)
\* the key inside the value of the authentication header of a request
KeyUsed(req) ==
    IF /\ Len(req.headers[API_KEY_HEADER]) >= Len(BEARER)
       /\ SubSeq(req.headers[API_KEY_HEADER], 1, Len(BEARER)) = BEARER
    THEN SubSeq(req.headers[API_KEY_HEADER], Len(BEARER) + 1,
                Len(req.headers[API_KEY_HEADER]))
    ELSE req.headers[API_KEY_HEADER]

\* call c was made on the client as it was constructed, and it ended as its
\* operation ends on the reaction to its own request
OwnCall(c) ==
    c.pc # "idle" =>
        /\ built.done
        /\ IsSome(ResolveKey(built.b, built.env))
        /\ c.out = RequestOut(c.op, [api_key |-> Unwrap(ResolveKey(built.b, built.env)),
                                     base_url |-> ResolveBaseUrl(built.b)], c.request).req
        /\ c.out # <<>> =>
              /\ KeyUsed(c.out[1]) = Unwrap(ResolveKey(built.b, built.env))
              /\ c.out[1].url = ResolveBaseUrl(built.b) \o FixedPath(c.op)
        /\ c.pc = "done" => c.result = OutcomeOf(c.op, c.reaction).result

\* C14: whatever the two tasks' calls and the changes of EXA_API_KEY that came
\* before, the request of every call carries the key and the base URL that
\* build resolved from the builder and the environment it saw, and the result
\* of every call is what its operation makes of its own request value and of
\* the reaction to its own request.
C14_FixedConfigIndependentCalls == OwnCall(call) /\ OwnCall(peer)

\* the variable was set after the client was built with an explicit key; one
\* task's get_contents has returned a response while the other task's search
\* is in flight with the key of the construction
C14_Witness ==
    /\ built.b.api_key = Some(TEST_KEY) /\ built.env = EnvUnset
    /\ env = EnvSet(ENV_KEY)
    /\ call.pc = "done" /\ call.op = "get_contents" /\ call.result.ok
    /\ KeyUsed(call.out[1]) = TEST_KEY
    /\ peer.pc = "sent" /\ peer.op = "search"
    /\ KeyUsed(peer.out[1]) = TEST_KEY

====
